---- MODULE Spec2Model ----
(***************************************************************************)
(* Model of restic's prune command (cmd/restic/cmd_prune.go):              *)
(* runPruneWithRepo = LoadIndex; planPrune; printPruneStats; doPrune.      *)
(* The backend (pack files, index files), the in-memory master index and   *)
(* every local of planPrune are state; each phase of planPrune and each    *)
(* step of doPrune is one action.                                          *)
(***************************************************************************)
EXTENDS Integers, Sequences, FiniteSets, TLC

\* ------------------------------------------------------------------ bounds
\* largest number of (blob, pack) entries of the initial index
MaxEntries == 2

\* prune runs made one after the other on the same repository
MaxRuns == 2

\* ------------------------------------------------------- the small universe
\* blob handles (type, id): two data blobs and one tree blob
Handles == {"d1", "d2", "t1"}

\* restic.BlobHandle.Type
BlobType(h) == IF h = "t1" THEN "tree" ELSE "data"

\* blob.Length: the stored length of a blob is determined by its content,
\* hence by its handle
Length(h) == IF h = "d2" THEN 2 ELSE 1

\* packs the initial index may describe, and a pack no index ever describes
IndexedPacks == {1, 2}
StrayPack == 3

\* header bytes that Index().PackSize(ctx, true) reports for a pack
HeaderBytes == 1

\* on-disk size of a pack the index does not describe
StraySize == 2

\* uint64 arithmetic; the width is scaled down so that the modulus fits the
\* checker's integers, every byte count of the model stays far below it
Uint64Mod == 2 ^ 20
MaxUint64 == Uint64Mod - 1
USub(a, b) == (a - b + Uint64Mod) % Uint64Mod
UAdd(a, b) == (a + b) % Uint64Mod

\* ------------------------------------------------------------------ state
VARIABLES
    opts,            \* PruneOptions
    live,            \* result of getUsedBlobs (the input live set)
    disk,            \* backend: pack id -> on-disk size of the pack files
    indexFiles,      \* backend: index file id -> set of entries it holds
    index,           \* repo.Index(): the in-memory master index
    pc,              \* position of the run
    err,             \* error the run returned ("" = nil)
    usedBlobs, keepBlobs, duplicateBlobs,
    indexPack,       \* map[restic.ID]packInfo
    stats,           \* pruneStats
    removePacksFirst, removePacks, repackPacks, ignorePacks,
    repackCandidates,
    repackAllPacksWithDuplicates,
    maxUnusedSizeAfter,
    plan,            \* the prunePlan handed to doPrune
    obsoleteIndexes, \* index files that idx.Save reported obsolete
    hist             \* history of the run (observations only)

vars == <<opts, live, disk, indexFiles, index, pc, err, usedBlobs, keepBlobs,
          duplicateBlobs, indexPack, stats, removePacksFirst, removePacks,
          repackPacks, ignorePacks, repackCandidates,
          repackAllPacksWithDuplicates, maxUnusedSizeAfter, plan,
          obsoleteIndexes, hist>>

\* ---------------------------------------------------------------- helpers
RECURSIVE Perms(_)
\* all enumerations of a finite set
Perms(S) ==
    IF S = {} THEN {<<>>}
    ELSE UNION {{<<x>> \o s : s \in Perms(S \ {x})} : x \in S}

RECURSIVE SumOver(_, _)
SumOver(S, f) ==
    IF S = {} THEN 0
    ELSE LET x == CHOOSE y \in S : TRUE IN f[x] + SumOver(S \ {x}, f)

Range(s) == {s[i] : i \in 1..Len(s)}

PacksOf(idx) == {e.pack : e \in idx}
HandlesOf(idx) == {e.handle : e \in idx}
EntriesIn(idx, p) == {e \in idx : e.pack = p}

\* size of a pack file written with exactly the blobs the index lists for it
IndexedSize(idx, p) ==
    HeaderBytes + SumOver(EntriesIn(idx, p), [e \in EntriesIn(idx, p) |-> Length(e.handle)])

\* the zero values of the Go structs
ZeroBlobStats == [Used |-> 0, Duplicate |-> 0, Unused |-> 0, Total |-> 0,
                  Repack |-> 0, RepackRm |-> 0, Remove |-> 0, RemoveTotal |-> 0,
                  Remain |-> 0, RemainUnused |-> 0]
ZeroSizeStats == [Used |-> 0, Duplicate |-> 0, Unused |-> 0, Unref |-> 0, Total |-> 0,
                  Repack |-> 0, RepackRm |-> 0, Remove |-> 0, RemoveTotal |-> 0,
                  Remain |-> 0, RemainUnused |-> 0]
ZeroPackStats == [Used |-> 0, Unused |-> 0, PartlyUsed |-> 0, Unref |-> 0, Total |-> 0,
                  Keep |-> 0, Repack |-> 0, Remove |-> 0, RemoveTotal |-> 0]
ZeroStats == [MessageType |-> "", Blobs |-> ZeroBlobStats, Size |-> ZeroSizeStats,
              Packs |-> ZeroPackStats]
ZeroPlan == [removePacksFirst |-> {}, repackPacks |-> {}, keepBlobs |-> {},
             removePacks |-> {}, ignorePacks |-> {}]
ZeroPackInfo == [usedBlobs |-> 0, unusedBlobs |-> 0, duplicateBlobs |-> 0,
                 usedSize |-> 0, unusedSize |-> 0, tpe |-> "unset"]

\* variant: unlimited taken as no unused byte tolerated
MaxUnusedBytesUnlimitedAsZero(mu, used) ==
    CASE mu.kind = "unlimited" -> 0
      [] mu.kind = "percent"   -> (mu.p * used) \div (100 - mu.p)
      [] OTHER                 -> mu.size

\* opts.maxUnusedBytes as set by verifyPruneOptions; the percentages of
\* MaxUnusedChoices make p / (100 - p) exact, so that the float64 product
\* truncated to uint64 is the integer quotient
MaxUnusedBytes(mu, used) ==
    CASE mu.kind = "unlimited" -> MaxUint64
      [] mu.kind = "percent"   -> (mu.p * used) \div (100 - mu.p)
      [] OTHER                 -> mu.size


\* ------------------------------------------------- planPrune, lines 266-294
\* one iteration of the first loop over repo.Index().Each
Pass1Step(acc, blob) ==
    LET bh == blob.handle
        size == Length(bh)
    IN  CASE bh \in acc.usedBlobs ->
               [acc EXCEPT !.usedBlobs = @ \ {bh},
                           !.keepBlobs = @ \cup {bh},
                           !.stats.Size.Used = UAdd(@, size),
                           !.stats.Blobs.Used = @ + 1]
          [] bh \in acc.keepBlobs ->
               [acc EXCEPT !.duplicateBlobs = @ \cup {bh},
                           !.stats.Size.Duplicate = UAdd(@, size),
                           !.stats.Blobs.Duplicate = @ + 1]
          [] OTHER ->
               [acc EXCEPT !.stats.Size.Unused = UAdd(@, size),
                           !.stats.Blobs.Unused = @ + 1]

RECURSIVE Pass1Loop(_, _)
Pass1Loop(acc, each) ==
    IF each = <<>> THEN acc
    ELSE Pass1Loop(Pass1Step(acc, Head(each)), Tail(each))

\* mutant: the completeness check tolerating one handle left over
IndexIncompleteOffByOne(used) == Cardinality(used) > 1

\* the check "if len(usedBlobs) != 0" after the first loop
IndexIncomplete(used) == used # {}

\* first loop and the completeness check
Pass1 ==
    /\ pc = "pass1"
    /\ \E each \in Perms(index) :
         LET r == Pass1Loop([usedBlobs |-> usedBlobs, keepBlobs |-> {},
                             duplicateBlobs |-> {}, stats |-> stats], each)
         IN  /\ usedBlobs' = r.usedBlobs
             /\ keepBlobs' = r.keepBlobs
             /\ duplicateBlobs' = r.duplicateBlobs
             /\ stats' = r.stats
             /\ IF IndexIncomplete(r.usedBlobs)
                THEN /\ pc' = "failed"
                     /\ err' = "IndexIncomplete"
                ELSE /\ pc' = "pass2"
                     /\ err' = err
    /\ UNCHANGED <<obsoleteIndexes, opts, live, disk, indexFiles, index, indexPack, removePacksFirst,
                   removePacks, repackPacks, ignorePacks, repackCandidates,
                   repackAllPacksWithDuplicates, maxUnusedSizeAfter, plan, hist>>

\* ------------------------------------------------- planPrune, lines 296-333
\* indexPack seeded from Index().PackSize(ctx, true)
SeedIndexPack(idx) ==
    [p \in PacksOf(idx) |-> [ZeroPackInfo EXCEPT !.usedSize = HeaderBytes]]

\* variant: the second loop asking keepBlobs before duplicateBlobs
Pass2StepKeepFirst(ipm, blob, keepSet, dupSet) ==
    LET ip0 == ipm[blob.pack]
        ip1 == IF ip0.tpe = "unset" THEN [ip0 EXCEPT !.tpe = BlobType(blob.handle)] ELSE ip0
        ip2 == IF ip1.tpe # BlobType(blob.handle) THEN [ip1 EXCEPT !.tpe = "invalid"] ELSE ip1
        bh == blob.handle
        size == Length(bh)
        ip3 == CASE bh \in keepSet ->
                      [ip2 EXCEPT !.usedSize = UAdd(@, size), !.usedBlobs = @ + 1]
                 [] bh \in dupSet ->
                      [ip2 EXCEPT !.usedSize = UAdd(@, size), !.duplicateBlobs = @ + 1]
                 [] OTHER ->
                      [ip2 EXCEPT !.unusedSize = UAdd(@, size), !.unusedBlobs = @ + 1]
    IN  [ipm EXCEPT ![blob.pack] = ip3]

\* one iteration of the second loop over repo.Index().Each
Pass2Step(ipm, blob, keepSet, dupSet) ==
    LET ip0 == ipm[blob.pack]
        ip1 == IF ip0.tpe = "unset" THEN [ip0 EXCEPT !.tpe = BlobType(blob.handle)] ELSE ip0
        ip2 == IF ip1.tpe # BlobType(blob.handle) THEN [ip1 EXCEPT !.tpe = "invalid"] ELSE ip1
        bh == blob.handle
        size == Length(bh)
        ip3 == CASE bh \in dupSet ->
                      [ip2 EXCEPT !.usedSize = UAdd(@, size), !.duplicateBlobs = @ + 1]
                 [] bh \in keepSet ->
                      [ip2 EXCEPT !.usedSize = UAdd(@, size), !.usedBlobs = @ + 1]
                 [] OTHER ->
                      [ip2 EXCEPT !.unusedSize = UAdd(@, size), !.unusedBlobs = @ + 1]
    IN  [ipm EXCEPT ![blob.pack] = ip3]

RECURSIVE Pass2Loop(_, _, _, _)
Pass2Loop(ipm, each, keepSet, dupSet) ==
    IF each = <<>> THEN ipm
    ELSE Pass2Loop(Pass2Step(ipm, Head(each), keepSet, dupSet), Tail(each), keepSet, dupSet)

Pass2 ==
    /\ pc = "pass2"
    /\ \E each \in Perms(index) :
         indexPack' = Pass2Loop(SeedIndexPack(index), each, keepBlobs, duplicateBlobs)
    /\ pc' = "list"
    /\ hist' = [hist EXCEPT !.packInfo = indexPack']
    /\ UNCHANGED <<obsoleteIndexes, opts, live, disk, indexFiles, index, err, usedBlobs, keepBlobs,
                   duplicateBlobs, stats, removePacksFirst, removePacks, repackPacks,
                   ignorePacks, repackCandidates, repackAllPacksWithDuplicates,
                   maxUnusedSizeAfter, plan>>

\* ------------------------------------------------- planPrune, lines 343-410
\* variant: keeping a pack with duplicates leaves the flag as it is
keepLeavingFlag(st, p) ==
    [st EXCEPT !.stats.Packs.Keep = @ + 1]

\* the closure keep, acting on the locals it captures
keep(st, p) ==
    [st EXCEPT !.stats.Packs.Keep = @ + 1,
               !.repackAll = IF p.duplicateBlobs > 0 THEN FALSE ELSE @]

\* mutant: the size check without the exemption of unneeded packs
SizeNotMatchingAlways(p, packSize) ==
    UAdd(p.unusedSize, p.usedSize) # packSize

\* the size check of the List callback
SizeNotMatching(p, packSize) ==
    /\ UAdd(p.unusedSize, p.usedSize) # packSize
    /\ ~(p.usedBlobs = 0 /\ p.duplicateBlobs = 0)

\* "statistics" switch of the List callback
CountPack(st, p) ==
    CASE p.usedBlobs = 0 /\ p.duplicateBlobs = 0 -> [st EXCEPT !.stats.Packs.Unused = @ + 1]
      [] p.unusedBlobs = 0                       -> [st EXCEPT !.stats.Packs.Used = @ + 1]
      [] OTHER                                   -> [st EXCEPT !.stats.Packs.PartlyUsed = @ + 1]

\* variant: the switch without the case for RepackCachableOnly
DecideWithoutCachableOnly(st, id, p) ==
    CASE p.usedBlobs = 0 /\ p.duplicateBlobs = 0 ->
           [st EXCEPT !.removePacks = @ \cup {id},
                      !.stats.Blobs.Remove = @ + p.unusedBlobs,
                      !.stats.Size.Remove = UAdd(@, p.unusedSize)]
      [] p.unusedBlobs = 0 /\ p.duplicateBlobs = 0 /\ p.tpe # "invalid" ->
           keep(st, p)
      [] OTHER ->
           [st EXCEPT !.repackCandidates = Append(@, [ID |-> id, packInfo |-> p])]

\* variant: a pack without used and duplicate blobs is removed and also made
\* a repack candidate
DecideRemovingAndRepacking(st, id, p) ==
    CASE p.usedBlobs = 0 /\ p.duplicateBlobs = 0 ->
           [st EXCEPT !.removePacks = @ \cup {id},
                      !.stats.Blobs.Remove = @ + p.unusedBlobs,
                      !.stats.Size.Remove = UAdd(@, p.unusedSize),
                      !.repackCandidates = Append(@, [ID |-> id, packInfo |-> p])]
      [] opts.RepackCachableOnly /\ p.tpe = "data" ->
           [keep(st, p) EXCEPT !.keptCacheable = @ \cup {id}]
      [] p.unusedBlobs = 0 /\ p.duplicateBlobs = 0 /\ p.tpe # "invalid" ->
           keep(st, p)
      [] OTHER ->
           [st EXCEPT !.repackCandidates = Append(@, [ID |-> id, packInfo |-> p])]

\* mutant: the first case of the switch forgetting the duplicate blobs
DecideIgnoringDuplicates(st, id, p) ==
    CASE p.usedBlobs = 0 ->
           [st EXCEPT !.removePacks = @ \cup {id},
                      !.stats.Blobs.Remove = @ + p.unusedBlobs,
                      !.stats.Size.Remove = UAdd(@, p.unusedSize)]
      [] opts.RepackCachableOnly /\ p.tpe = "data" ->
           [keep(st, p) EXCEPT !.keptCacheable = @ \cup {id}]
      [] p.unusedBlobs = 0 /\ p.duplicateBlobs = 0 /\ p.tpe # "invalid" ->
           keep(st, p)
      [] OTHER ->
           [st EXCEPT !.repackCandidates = Append(@, [ID |-> id, packInfo |-> p])]

\* "decide what to do" switch of the List callback (keptCacheable only
\* observes which case kept a pack)
Decide(st, id, p) ==
    CASE p.usedBlobs = 0 /\ p.duplicateBlobs = 0 ->
           [st EXCEPT !.removePacks = @ \cup {id},
                      !.stats.Blobs.Remove = @ + p.unusedBlobs,
                      !.stats.Size.Remove = UAdd(@, p.unusedSize)]
      [] opts.RepackCachableOnly /\ p.tpe = "data" ->
           [keep(st, p) EXCEPT !.keptCacheable = @ \cup {id}]
      [] p.unusedBlobs = 0 /\ p.duplicateBlobs = 0 /\ p.tpe # "invalid" ->
           keep(st, p)
      [] OTHER ->
           [st EXCEPT !.repackCandidates = Append(@, [ID |-> id, packInfo |-> p])]

\* variant: a pack the index does not know is put into removePacks
ListCallbackRemovingLater(st, id, packSize) ==
    IF id \notin DOMAIN st.indexPack
    THEN [st EXCEPT !.removePacks = @ \cup {id},
                    !.stats.Size.Unref = UAdd(@, packSize)]
    ELSE LET p == st.indexPack[id]
         IN  IF SizeNotMatching(p, packSize)
             THEN [st EXCEPT !.err = "SizeMismatch"]
             ELSE LET d == Decide(CountPack(st, p), id, p)
                  IN  [d EXCEPT !.indexPack = [q \in DOMAIN st.indexPack \ {id} |-> st.indexPack[q]]]

\* the callback handed to repo.List, for one listed pack file
ListCallback(st, id, packSize) ==
    IF id \notin DOMAIN st.indexPack
    THEN [st EXCEPT !.removePacksFirst = @ \cup {id},
                    !.stats.Size.Unref = UAdd(@, packSize)]
    ELSE LET p == st.indexPack[id]
         IN  IF SizeNotMatching(p, packSize)
             THEN [st EXCEPT !.err = "SizeMismatch"]
             ELSE LET d == Decide(CountPack(st, p), id, p)
                  IN  [d EXCEPT !.indexPack = [q \in DOMAIN st.indexPack \ {id} |-> st.indexPack[q]]]

RECURSIVE ListLoop(_, _)
\* repo.List stops at the first error the callback returns
ListLoop(st, listing) ==
    IF listing = <<>> \/ st.err # "" THEN st
    ELSE ListLoop(ListCallback(st, Head(listing), disk[Head(listing)]), Tail(listing))

List ==
    /\ pc = "list"
    /\ \E listing \in Perms(DOMAIN disk) :
         LET r == ListLoop([indexPack |-> indexPack, removePacksFirst |-> {},
                            removePacks |-> {}, repackCandidates |-> <<>>,
                            stats |-> stats, repackAll |-> TRUE, err |-> "",
                            keptCacheable |-> {}], listing)
         IN  /\ indexPack' = r.indexPack
             /\ removePacksFirst' = r.removePacksFirst
             /\ removePacks' = r.removePacks
             /\ repackCandidates' = r.repackCandidates
             /\ stats' = r.stats
             /\ repackAllPacksWithDuplicates' = r.repackAll
             /\ err' = r.err
             /\ hist' = [hist EXCEPT !.keptCacheable = r.keptCacheable]
             /\ pc' = IF r.err # "" THEN "failed" ELSE "missing"
    /\ UNCHANGED <<obsoleteIndexes, opts, live, disk, indexFiles, index, usedBlobs, keepBlobs,
                   duplicateBlobs, repackPacks, ignorePacks, maxUnusedSizeAfter, plan>>


\* ------------------------------------------------- planPrune, lines 412-437
\* mutant: missing packs that hold only duplicates taken as not needed
UnneededIgnoringDuplicates(ipm) == {id \in DOMAIN ipm : ipm[id].usedBlobs = 0}

\* packs still in indexPack after the listing that hold nothing needed
Unneeded(ipm) == {id \in DOMAIN ipm : ipm[id].usedBlobs = 0 /\ ipm[id].duplicateBlobs = 0}

\* mutant: missing needed packs reported, planning going on
MissingPacksWarnOnly ==
    /\ pc = "missing"
    /\ LET ign == {id \in DOMAIN indexPack :
                     indexPack[id].usedBlobs = 0 /\ indexPack[id].duplicateBlobs = 0}
           left == DOMAIN indexPack \ ign
       IN  /\ ignorePacks' = ign
           /\ stats' = [stats EXCEPT
                  !.Blobs.Remove = @ + SumOver(ign, [id \in ign |-> indexPack[id].unusedBlobs]),
                  !.Size.Remove = UAdd(@, SumOver(ign, [id \in ign |-> indexPack[id].unusedSize]))]
           /\ indexPack' = [id \in left |-> indexPack[id]]
           /\ err' = IF left # {} THEN "PacksMissing" ELSE err
           /\ pc' = "sort"
    /\ UNCHANGED <<obsoleteIndexes, opts, live, disk, indexFiles, index, usedBlobs, keepBlobs,
                   duplicateBlobs, removePacksFirst, removePacks, repackPacks,
                   repackCandidates, repackAllPacksWithDuplicates,
                   maxUnusedSizeAfter, plan, hist>>

MissingPacks ==
    /\ pc = "missing"
    /\ LET ign == Unneeded(indexPack)
           left == DOMAIN indexPack \ ign
       IN  /\ ignorePacks' = ign
           /\ stats' = [stats EXCEPT
                  !.Blobs.Remove = @ + SumOver(ign, [id \in ign |-> indexPack[id].unusedBlobs]),
                  !.Size.Remove = UAdd(@, SumOver(ign, [id \in ign |-> indexPack[id].unusedSize]))]
           /\ indexPack' = [id \in left |-> indexPack[id]]
           /\ IF left # {}
              THEN /\ pc' = "failed"
                   /\ err' = "PacksMissing"
              ELSE /\ pc' = "sort"
                   /\ err' = err
    /\ UNCHANGED <<obsoleteIndexes, opts, live, disk, indexFiles, index, usedBlobs, keepBlobs,
                   duplicateBlobs, removePacksFirst, removePacks, repackPacks,
                   repackCandidates, repackAllPacksWithDuplicates,
                   maxUnusedSizeAfter, plan, hist>>

\* ------------------------------------------------- planPrune, lines 439-461
\* the less function handed to sort.Slice
Less(pi, pj) ==
    CASE pi.duplicateBlobs > 0 /\ pj.duplicateBlobs = 0 -> TRUE
      [] pj.duplicateBlobs > 0 /\ pi.duplicateBlobs = 0 -> FALSE
      [] pi.tpe # "data" /\ pj.tpe = "data" -> TRUE
      [] pj.tpe # "data" /\ pi.tpe = "data" -> FALSE
      [] OTHER -> (pi.unusedSize * pj.usedSize) % Uint64Mod
                    > (pj.unusedSize * pi.usedSize) % Uint64Mod

\* sort.Slice is not stable: any arrangement that Less does not contradict
SortSlice(cands) ==
    {s \in Perms(Range(cands)) :
        \A i \in 1..Len(s) : \A j \in 1..Len(s) :
            i < j => ~Less(s[j].packInfo, s[i].packInfo)}

SortCandidates ==
    /\ pc = "sort"
    /\ maxUnusedSizeAfter' = MaxUnusedBytes(opts.MaxUnused, stats.Size.Used)
    /\ repackCandidates' \in SortSlice(repackCandidates)
    /\ pc' = "select"
    /\ hist' = [hist EXCEPT !.selection = TRUE]
    /\ UNCHANGED <<obsoleteIndexes, opts, live, disk, indexFiles, index, err, usedBlobs, keepBlobs,
                   duplicateBlobs, indexPack, stats, removePacksFirst, removePacks,
                   repackPacks, ignorePacks, repackAllPacksWithDuplicates, plan>>

\* ------------------------------------------------- planPrune, lines 463-494
\* the closure repack, acting on the locals it captures
\* variant: the used bytes and blobs of a repacked pack counted as removed
repackCountingUsedAsRemoved(st, id, p) ==
    [st EXCEPT !.repackPacks = @ \cup {id},
               !.stats.Blobs.Repack = @ + p.unusedBlobs + p.duplicateBlobs + p.usedBlobs,
               !.stats.Size.Repack = UAdd(@, UAdd(p.unusedSize, p.usedSize)),
               !.stats.Blobs.RepackRm = @ + p.unusedBlobs + p.usedBlobs,
               !.stats.Size.RepackRm = UAdd(@, UAdd(p.unusedSize, p.usedSize))]

repack(st, id, p) ==
    [st EXCEPT !.repackPacks = @ \cup {id},
               !.stats.Blobs.Repack = @ + p.unusedBlobs + p.duplicateBlobs + p.usedBlobs,
               !.stats.Size.Repack = UAdd(@, UAdd(p.unusedSize, p.usedSize)),
               !.stats.Blobs.RepackRm = @ + p.unusedBlobs,
               !.stats.Size.RepackRm = UAdd(@, p.unusedSize)]

\* mutant: the comparison with the tolerated unused size turned around
ReachedUnusedSizeAfterReversed(st, maxAfter) ==
    USub(USub(st.stats.Size.Unused, st.stats.Size.Remove), st.stats.Size.RepackRm) > maxAfter

ReachedUnusedSizeAfter(st, maxAfter) ==
    USub(USub(st.stats.Size.Unused, st.stats.Size.Remove), st.stats.Size.RepackRm) < maxAfter

\* mutant: the cap compared with what is selected so far, without the
\* candidate at hand
ReachedRepackSizeLate(st, p) ==
    IF opts.MaxRepackBytes > 0
    THEN st.stats.Size.Repack > opts.MaxRepackBytes
    ELSE FALSE

ReachedRepackSize(st, p) ==
    IF opts.MaxRepackBytes > 0
    THEN UAdd(st.stats.Size.Repack, UAdd(p.unusedSize, p.usedSize)) > opts.MaxRepackBytes
    ELSE FALSE

\* variant: the unused target looked at before duplicates and pack type
SelectCandidateTargetFirst(st, c, maxAfter) ==
    LET p == c.packInfo
    IN  CASE ReachedRepackSize(st, p) ->
               [keep(st, p) EXCEPT !.keptByCap = @ \cup {c.ID}]
          [] ReachedUnusedSizeAfter(st, maxAfter) ->
               keep(st, p)
          [] OTHER ->
               repack(st, c.ID, p)

\* the body of the loop over repackCandidates, for one candidate
SelectCandidate(st, c, maxAfter) ==
    LET p == c.packInfo
    IN  CASE ReachedRepackSize(st, p) ->
               [keep(st, p) EXCEPT !.keptByCap = @ \cup {c.ID}]
          [] p.duplicateBlobs > 0 \/ p.tpe # "data" ->
               repack(st, c.ID, p)
          [] ReachedUnusedSizeAfter(st, maxAfter) ->
               keep(st, p)
          [] OTHER ->
               repack(st, c.ID, p)

\* one iteration of the selection loop: the first candidate not yet visited
Select ==
    /\ pc = "select"
    /\ hist.visited < Len(repackCandidates)
    /\ LET r == SelectCandidate([stats |-> stats, repackAll |-> repackAllPacksWithDuplicates,
                                 repackPacks |-> repackPacks, keptByCap |-> hist.keptByCap],
                                repackCandidates[hist.visited + 1], maxUnusedSizeAfter)
       IN  /\ stats' = r.stats
           /\ repackAllPacksWithDuplicates' = r.repackAll
           /\ repackPacks' = r.repackPacks
           /\ hist' = [hist EXCEPT !.visited = @ + 1, !.keptByCap = r.keptByCap]
    /\ UNCHANGED <<obsoleteIndexes, opts, live, disk, indexFiles, index, pc, err, usedBlobs, keepBlobs,
                   duplicateBlobs, indexPack, removePacksFirst, removePacks,
                   ignorePacks, repackCandidates, maxUnusedSizeAfter, plan>>

\* ------------------------------------------------- planPrune, lines 496-524
Totals(st, all, nFirst, nRepack, nRemove) ==
    LET s1 == IF all
              THEN [st EXCEPT !.Blobs.RepackRm = @ + st.Blobs.Duplicate,
                              !.Size.RepackRm = UAdd(@, st.Size.Duplicate)]
              ELSE st
        s2 == [s1 EXCEPT !.MessageType = "summary",
                         !.Blobs.Total = s1.Blobs.Used + s1.Blobs.Unused + s1.Blobs.Duplicate]
        s3 == [s2 EXCEPT !.Blobs.RemoveTotal = s2.Blobs.Remove + s2.Blobs.RepackRm]
        s4 == [s3 EXCEPT !.Blobs.Remain = USub(s3.Blobs.Total, s3.Blobs.RemoveTotal),
                         !.Size.Total = UAdd(UAdd(s3.Size.Used, s3.Size.Duplicate),
                                             UAdd(s3.Size.Unused, s3.Size.Unref))]
        s5 == [s4 EXCEPT !.Size.Unused = UAdd(s4.Size.Duplicate, s4.Size.Unused)]
        s6 == [s5 EXCEPT !.Size.RemoveTotal =
                             UAdd(UAdd(s5.Size.Remove, s5.Size.RepackRm), s5.Size.Unref)]
        s7 == [s6 EXCEPT !.Size.Remain = USub(s6.Size.Total, s6.Size.RemoveTotal),
                         !.Size.RemainUnused =
                             USub(USub(s6.Size.Unused, s6.Size.Remove), s6.Size.RepackRm),
                         !.Packs.Unref = nFirst]
        s8 == [s7 EXCEPT !.Packs.Total = s7.Packs.Used + s7.Packs.PartlyUsed
                                           + s7.Packs.Unused + s7.Packs.Unref,
                         !.Packs.Repack = nRepack,
                         !.Packs.Remove = nRemove]
    IN  [s8 EXCEPT !.Packs.RemoveTotal = s8.Packs.Unref + s8.Packs.Remove]

\* end of the selection loop, totals, and the plan returned with a nil error
Finalize ==
    /\ pc = "select"
    /\ hist.visited = Len(repackCandidates)
    /\ stats' = Totals(stats, repackAllPacksWithDuplicates, Cardinality(removePacksFirst),
                       Cardinality(repackPacks), Cardinality(removePacks))
    /\ plan' = [removePacksFirst |-> removePacksFirst, repackPacks |-> repackPacks,
                keepBlobs |-> keepBlobs, removePacks |-> removePacks,
                ignorePacks |-> ignorePacks]
    /\ pc' = "doPrune"
    /\ UNCHANGED <<obsoleteIndexes, opts, live, disk, indexFiles, index, err, usedBlobs, keepBlobs,
                   duplicateBlobs, indexPack, removePacksFirst, removePacks, repackPacks,
                   ignorePacks, repackCandidates, repackAllPacksWithDuplicates,
                   maxUnusedSizeAfter, hist>>


\* ------------------------------------------------------ doPrune, lines 573-627
\* the positions at which doPrune has backend work ahead of it
ExecutorPcs == {"removeFirst", "repack", "rebuild", "deleteObsolete", "removeOld"}

\* DeleteFiles(gopts, repo, ids, restic.PackFile) on the pack files
DeletePacks(d, ids) == [p \in DOMAIN d \ ids |-> d[p]]

\* mutant: the dry run deleting the unreferenced packs before it returns
DryRunDeleting ==
    /\ pc = "doPrune"
    /\ opts.DryRun
    /\ disk' = [p \in DOMAIN disk \ plan.removePacksFirst |-> disk[p]]
    /\ pc' = "done"
    /\ UNCHANGED <<opts, live, indexFiles, index, err, usedBlobs, keepBlobs,
                   duplicateBlobs, indexPack, stats, removePacksFirst, removePacks,
                   repackPacks, ignorePacks, repackCandidates,
                   repackAllPacksWithDuplicates, maxUnusedSizeAfter, plan,
                   obsoleteIndexes, hist>>

\* "if opts.DryRun { ... return nil }"
DryRunReturn ==
    /\ pc = "doPrune"
    /\ opts.DryRun
    /\ pc' = "done"
    /\ UNCHANGED <<opts, live, disk, indexFiles, index, err, usedBlobs, keepBlobs,
                   duplicateBlobs, indexPack, stats, removePacksFirst, removePacks,
                   repackPacks, ignorePacks, repackCandidates,
                   repackAllPacksWithDuplicates, maxUnusedSizeAfter, plan,
                   obsoleteIndexes, hist>>

\* doPrune entered without DryRun
EnterDoPrune ==
    /\ pc = "doPrune"
    /\ ~opts.DryRun
    /\ pc' = "removeFirst"
    /\ hist' = [hist EXCEPT !.doPrune = TRUE]
    /\ UNCHANGED <<opts, live, disk, indexFiles, index, err, usedBlobs, keepBlobs,
                   duplicateBlobs, indexPack, stats, removePacksFirst, removePacks,
                   repackPacks, ignorePacks, repackCandidates,
                   repackAllPacksWithDuplicates, maxUnusedSizeAfter, plan,
                   obsoleteIndexes>>

\* step 1, lines 588-592
DeleteUnreferenced ==
    /\ pc = "removeFirst"
    /\ IF plan.removePacksFirst # {}
       THEN /\ disk' = DeletePacks(disk, plan.removePacksFirst)
            /\ hist' = [hist EXCEPT !.log = Append(@, "removeFirst")]
       ELSE UNCHANGED <<disk, hist>>
    /\ pc' = "repack"
    /\ UNCHANGED <<opts, live, indexFiles, index, err, usedBlobs, keepBlobs,
                   duplicateBlobs, indexPack, stats, removePacksFirst, removePacks,
                   repackPacks, ignorePacks, repackCandidates,
                   repackAllPacksWithDuplicates, maxUnusedSizeAfter, plan,
                   obsoleteIndexes>>

\* ids of the pack files a rewrite creates: one per blob type
NewPackID(run, tpe) == 10 * run + (IF tpe = "data" THEN 1 ELSE 2)

\* repository.Repack: the index entries of the pack files it writes, one copy
\* of every handle of keepSet that some pack of packs holds
Repacked(idx, packs, keepSet, run) ==
    {[handle |-> h, pack |-> NewPackID(run, BlobType(h))] :
        h \in {e.handle : e \in {x \in idx : x.pack \in packs /\ x.handle \in keepSet}}}

\* the pack files of a set of fresh entries, added to the backend
WritePacks(d, fresh) ==
    [p \in DOMAIN d \cup PacksOf(fresh) |->
        IF p \in PacksOf(fresh) THEN IndexedSize(fresh, p) ELSE d[p]]

\* mutant: the repacked packs deleted as soon as the rewriter returns
RepackDeletingAtOnce ==
    /\ pc = "repack"
    /\ IF plan.repackPacks # {}
       THEN LET fresh == Repacked(index, plan.repackPacks, plan.keepBlobs, hist.run)
            IN  /\ disk' = DeletePacks(WritePacks(disk, fresh), plan.repackPacks)
                /\ index' = index \cup fresh
                /\ plan' = [plan EXCEPT !.removePacks = @ \cup plan.repackPacks]
                /\ hist' = [hist EXCEPT !.log = Append(@, "repack")]
       ELSE UNCHANGED <<disk, index, plan, hist>>
    /\ pc' = "rebuild"
    /\ UNCHANGED <<opts, live, indexFiles, err, usedBlobs, keepBlobs,
                   duplicateBlobs, indexPack, stats, removePacksFirst, removePacks,
                   repackPacks, ignorePacks, repackCandidates,
                   repackAllPacksWithDuplicates, maxUnusedSizeAfter, obsoleteIndexes>>

\* step 2, lines 594-605, the rewriter succeeding
Repack ==
    /\ pc = "repack"
    /\ IF plan.repackPacks # {}
       THEN LET fresh == Repacked(index, plan.repackPacks, plan.keepBlobs, hist.run)
            IN  /\ disk' = WritePacks(disk, fresh)
                /\ index' = index \cup fresh
                /\ plan' = [plan EXCEPT !.removePacks = @ \cup plan.repackPacks]
                /\ hist' = [hist EXCEPT !.log = Append(@, "repack")]
       ELSE UNCHANGED <<disk, index, plan, hist>>
    /\ pc' = "rebuild"
    /\ UNCHANGED <<opts, live, indexFiles, err, usedBlobs, keepBlobs,
                   duplicateBlobs, indexPack, stats, removePacksFirst, removePacks,
                   repackPacks, ignorePacks, repackCandidates,
                   repackAllPacksWithDuplicates, maxUnusedSizeAfter, obsoleteIndexes>>

\* mutant: the error of the rewriter not returned, the run going on as if the
\* packs had been rewritten
RepackErrorIgnored ==
    /\ pc = "repack"
    /\ plan.repackPacks # {}
    /\ plan' = [plan EXCEPT !.removePacks = @ \cup plan.repackPacks]
    /\ pc' = "rebuild"
    /\ UNCHANGED <<opts, live, disk, indexFiles, index, err, usedBlobs, keepBlobs,
                   duplicateBlobs, indexPack, stats, removePacksFirst, removePacks,
                   repackPacks, ignorePacks, repackCandidates,
                   repackAllPacksWithDuplicates, maxUnusedSizeAfter,
                   obsoleteIndexes, hist>>

\* step 2, lines 597-601, the rewriter failing after writing none or all of
\* its pack files
RepackFails ==
    /\ pc = "repack"
    /\ plan.repackPacks # {}
    /\ \E written \in BOOLEAN :
         LET fresh == Repacked(index, plan.repackPacks, plan.keepBlobs, hist.run)
         IN  IF written
             THEN /\ disk' = WritePacks(disk, fresh)
                  /\ hist' = [hist EXCEPT !.log = Append(@, "repack")]
             ELSE UNCHANGED <<disk, hist>>
    /\ pc' = "failed"
    /\ err' = "RewriteFailed"
    /\ UNCHANGED <<opts, live, indexFiles, index, usedBlobs, keepBlobs,
                   duplicateBlobs, indexPack, stats, removePacksFirst, removePacks,
                   repackPacks, ignorePacks, repackCandidates,
                   repackAllPacksWithDuplicates, maxUnusedSizeAfter, plan,
                   obsoleteIndexes>>

\* lines 607-611
\* variant: removePacks not merged into ignorePacks
MergeIgnoreNothing(pl) == pl

MergeIgnore(pl) ==
    IF pl.ignorePacks = {}
    THEN [pl EXCEPT !.ignorePacks = pl.removePacks]
    ELSE [pl EXCEPT !.ignorePacks = @ \cup pl.removePacks]

\* MasterIndex.Save: the content of the index file it writes
SavedIndex(idx, excluded) == {e \in idx : e.pack \notin excluded}

\* step 3 up to idx.Save, lines 607-639, the save succeeding
SaveIndex ==
    /\ pc = "rebuild"
    /\ plan' = MergeIgnore(plan)
    /\ IF plan'.ignorePacks # {}
       THEN /\ indexFiles' = [f \in DOMAIN indexFiles \cup {hist.run} |->
                                 IF f = hist.run THEN SavedIndex(index, plan'.ignorePacks)
                                 ELSE indexFiles[f]]
            /\ obsoleteIndexes' = DOMAIN indexFiles
            /\ hist' = [hist EXCEPT !.log = Append(@, "saveIndex")]
            /\ pc' = "deleteObsolete"
       ELSE /\ UNCHANGED <<indexFiles, obsoleteIndexes, hist>>
            /\ pc' = "removeOld"
    /\ UNCHANGED <<opts, live, disk, index, err, usedBlobs, keepBlobs,
                   duplicateBlobs, indexPack, stats, removePacksFirst, removePacks,
                   repackPacks, ignorePacks, repackCandidates,
                   repackAllPacksWithDuplicates, maxUnusedSizeAfter>>

\* step 3, lines 614-617 and 635-639, idx.Save failing before or after the
\* new index file is stored
SaveIndexFails ==
    /\ pc = "rebuild"
    /\ plan' = MergeIgnore(plan)
    /\ plan'.ignorePacks # {}
    /\ \E written \in BOOLEAN :
         IF written
         THEN /\ indexFiles' = [f \in DOMAIN indexFiles \cup {hist.run} |->
                                   IF f = hist.run THEN SavedIndex(index, plan'.ignorePacks)
                                   ELSE indexFiles[f]]
              /\ hist' = [hist EXCEPT !.log = Append(@, "saveIndex")]
         ELSE UNCHANGED <<indexFiles, hist>>
    /\ pc' = "failed"
    /\ err' = "IndexRebuildFailed"
    /\ UNCHANGED <<opts, live, disk, index, usedBlobs, keepBlobs,
                   duplicateBlobs, indexPack, stats, removePacksFirst, removePacks,
                   repackPacks, ignorePacks, repackCandidates,
                   repackAllPacksWithDuplicates, maxUnusedSizeAfter, obsoleteIndexes>>

\* step 3, lines 641-642: DeleteFilesChecked on the obsolete index files
DeleteObsolete ==
    /\ pc = "deleteObsolete"
    /\ indexFiles' = [f \in DOMAIN indexFiles \ obsoleteIndexes |-> indexFiles[f]]
    /\ hist' = [hist EXCEPT !.log = Append(@, "deleteIndex"), !.rebuilt = TRUE]
    /\ pc' = "removeOld"
    /\ UNCHANGED <<opts, live, disk, index, err, usedBlobs, keepBlobs,
                   duplicateBlobs, indexPack, stats, removePacksFirst, removePacks,
                   repackPacks, ignorePacks, repackCandidates,
                   repackAllPacksWithDuplicates, maxUnusedSizeAfter, plan,
                   obsoleteIndexes>>

\* step 3, lines 614-617 and 642: DeleteFilesChecked failing with some of the
\* obsolete index files left
DeleteObsoleteFails ==
    /\ pc = "deleteObsolete"
    /\ \E gone \in SUBSET obsoleteIndexes :
         /\ gone # obsoleteIndexes
         /\ indexFiles' = [f \in DOMAIN indexFiles \ gone |-> indexFiles[f]]
    /\ hist' = [hist EXCEPT !.log = Append(@, "deleteIndex")]
    /\ pc' = "failed"
    /\ err' = "IndexRebuildFailed"
    /\ UNCHANGED <<opts, live, disk, index, usedBlobs, keepBlobs,
                   duplicateBlobs, indexPack, stats, removePacksFirst, removePacks,
                   repackPacks, ignorePacks, repackCandidates,
                   repackAllPacksWithDuplicates, maxUnusedSizeAfter, plan,
                   obsoleteIndexes>>

\* step 4, lines 620-626
\* variant: the packs of removePacks are left on disk
RemoveOldSkipped ==
    /\ pc = "removeOld"
    /\ pc' = "done"
    /\ UNCHANGED <<opts, live, disk, indexFiles, index, err, usedBlobs, keepBlobs,
                   duplicateBlobs, indexPack, stats, removePacksFirst, removePacks,
                   repackPacks, ignorePacks, repackCandidates,
                   repackAllPacksWithDuplicates, maxUnusedSizeAfter, plan,
                   obsoleteIndexes, hist>>

RemoveOld ==
    /\ pc = "removeOld"
    /\ IF plan.removePacks # {}
       THEN /\ disk' = DeletePacks(disk, plan.removePacks)
            /\ hist' = [hist EXCEPT !.log = Append(@, "removePacks")]
       ELSE UNCHANGED <<disk, hist>>
    /\ pc' = "done"
    /\ UNCHANGED <<opts, live, indexFiles, index, err, usedBlobs, keepBlobs,
                   duplicateBlobs, indexPack, stats, removePacksFirst, removePacks,
                   repackPacks, ignorePacks, repackCandidates,
                   repackAllPacksWithDuplicates, maxUnusedSizeAfter, plan,
                   obsoleteIndexes>>

\* the pack files the step at hand is deleting
BeingDeleted ==
    CASE pc = "removeFirst" -> plan.removePacksFirst
      [] pc = "removeOld"   -> plan.removePacks
      [] OTHER              -> {}

\* cancellation (gopts.ctx) between two steps, or within a deleting step with
\* some of its deletions done
Interrupt ==
    /\ pc \in ExecutorPcs
    /\ \E gone \in SUBSET BeingDeleted :
         /\ disk' = DeletePacks(disk, gone)
         /\ hist' = IF gone = {} THEN hist
                    ELSE [hist EXCEPT !.log = Append(@, IF pc = "removeFirst"
                                                        THEN "removeFirst"
                                                        ELSE "removePacks")]
    /\ pc' = "interrupted"
    /\ err' = "Cancelled"
    /\ UNCHANGED <<opts, live, indexFiles, index, usedBlobs, keepBlobs,
                   duplicateBlobs, indexPack, stats, removePacksFirst, removePacks,
                   repackPacks, ignorePacks, repackCandidates,
                   repackAllPacksWithDuplicates, maxUnusedSizeAfter, plan,
                   obsoleteIndexes>>

\* ------------------------------------------------------------ inputs, Init
\* --max-unused as parsed by verifyPruneOptions
MaxUnusedChoices ==
    {[kind |-> "unlimited", p |-> 0, size |-> 0],
     [kind |-> "percent", p |-> 50, size |-> 0],
     [kind |-> "absolute", p |-> 0, size |-> 1]}

\* --max-repack-size as parsed by verifyPruneOptions (0 = not given)
MaxRepackChoices == {0, 3}

Entries == {[handle |-> h, pack |-> p] : h \in Handles, p \in IndexedPacks}

\* hist: run = number of the run; log = backend mutations done so far, in
\* order; selection / doPrune = the selection loop / the executor was entered;
\* rebuilt = the index rebuild returned nil; visited = candidates the
\* selection loop has handled; keptByCap / keptCacheable = packs kept by the
\* reachedRepackSize case / the RepackCachableOnly case; packInfo = indexPack
\* as the second loop left it; disk0, indexFiles0 = the backend when the run
\* started; prev = plan, stats and candidate order of the run before
ZeroHist == [run |-> 1, log |-> <<>>, selection |-> FALSE, doPrune |-> FALSE,
             rebuilt |-> FALSE, visited |-> 0, keptByCap |-> {}, keptCacheable |-> {},
             packInfo |-> <<>>, disk0 |-> <<>>, indexFiles0 |-> <<>>, prev |-> <<>>]

Init ==
    /\ opts \in [DryRun : BOOLEAN, MaxUnused : MaxUnusedChoices,
                 MaxRepackBytes : MaxRepackChoices, RepackCachableOnly : BOOLEAN]
    /\ live \in SUBSET Handles
    /\ index \in {S \in SUBSET Entries : Cardinality(S) <= MaxEntries}
    /\ indexFiles = [f \in {0} |-> index]
    /\ \E present \in SUBSET (PacksOf(index) \cup {StrayPack}) :
         \E off \in SUBSET (present \cap PacksOf(index)) :
            disk = [p \in present |->
                      IF p \in PacksOf(index)
                      THEN IndexedSize(index, p) + (IF p \in off THEN 1 ELSE 0)
                      ELSE StraySize]
    /\ pc = "pass1"
    /\ err = ""
    /\ usedBlobs = live
    /\ keepBlobs = {}
    /\ duplicateBlobs = {}
    /\ indexPack = <<>>
    /\ stats = ZeroStats
    /\ removePacksFirst = {}
    /\ removePacks = {}
    /\ repackPacks = {}
    /\ ignorePacks = {}
    /\ repackCandidates = <<>>
    /\ repackAllPacksWithDuplicates = TRUE
    /\ maxUnusedSizeAfter = 0
    /\ plan = ZeroPlan
    /\ obsoleteIndexes = {}
    /\ hist = [ZeroHist EXCEPT !.disk0 = disk, !.indexFiles0 = indexFiles]

Next ==
    \/ Pass1
    \/ Pass2
    \/ List
    \/ MissingPacks
    \/ SortCandidates
    \/ Select
    \/ Finalize
    \/ DryRunReturn
    \/ EnterDoPrune
    \/ DeleteUnreferenced
    \/ Repack
    \/ RepackFails
    \/ SaveIndex
    \/ SaveIndexFails
    \/ DeleteObsolete
    \/ DeleteObsoleteFails
    \/ RemoveOld
    \/ Interrupt

Spec == Init /\ [][Next]_vars

\* ------------------------------------------- a further run, lines 155-172
\* repo.LoadIndex: the master index is the union of the persisted index files
LoadIndex(files) == UNION {files[f] : f \in DOMAIN files}

\* runPruneWithRepo called again on the repository as the run before left it,
\* with options o and the same snapshots
RunAgain(o) ==
    /\ pc \in {"done", "failed", "interrupted"}
    /\ opts' = o
    /\ index' = LoadIndex(indexFiles)
    /\ usedBlobs' = live
    /\ pc' = "pass1"
    /\ err' = ""
    /\ keepBlobs' = {}
    /\ duplicateBlobs' = {}
    /\ indexPack' = <<>>
    /\ stats' = ZeroStats
    /\ removePacksFirst' = {}
    /\ removePacks' = {}
    /\ repackPacks' = {}
    /\ ignorePacks' = {}
    /\ repackCandidates' = <<>>
    /\ repackAllPacksWithDuplicates' = TRUE
    /\ maxUnusedSizeAfter' = 0
    /\ plan' = ZeroPlan
    /\ obsoleteIndexes' = {}
    /\ hist' = [ZeroHist EXCEPT !.run = hist.run + 1,
                                !.disk0 = disk,
                                !.indexFiles0 = indexFiles,
                                !.prev = [opts |-> opts, pc |-> pc, err |-> err,
                                          plan |-> plan, stats |-> stats,
                                          candidates |-> repackCandidates,
                                          rebuilt |-> hist.rebuilt,
                                          keptByCap |-> hist.keptByCap,
                                          disk0 |-> hist.disk0]]
    /\ UNCHANGED <<live, disk, indexFiles>>

\* a dry run that ended is followed by a run with DryRun unset
PruneAfterDryRun ==
    /\ pc = "done"
    /\ opts.DryRun
    /\ RunAgain([opts EXCEPT !.DryRun = FALSE])

InitDryRun == Init /\ opts.DryRun

NextDryRun ==
    \/ Pass1
    \/ Pass2
    \/ List
    \/ MissingPacks
    \/ SortCandidates
    \/ Select
    \/ Finalize
    \/ DryRunReturn
    \/ PruneAfterDryRun

\* a dry run, then the planning of a run without DryRun on the same inputs
SpecDryRun == InitDryRun /\ [][NextDryRun]_vars

\* prune is called again, with the same options and snapshots, on the
\* repository as the run before left it: either that run finished, or it
\* stopped after it had rebuilt the index
PruneAgain ==
    /\ pc = "done" \/ hist.rebuilt
    /\ hist.run < MaxRuns
    /\ RunAgain(opts)

InitRerun == Init /\ ~opts.DryRun

NextRerun ==
    \/ Pass1
    \/ Pass2
    \/ List
    \/ MissingPacks
    \/ SortCandidates
    \/ Select
    \/ Finalize
    \/ EnterDoPrune
    \/ DeleteUnreferenced
    \/ Repack
    \/ RepackFails
    \/ SaveIndex
    \/ SaveIndexFails
    \/ DeleteObsolete
    \/ DeleteObsoleteFails
    \/ RemoveOld
    \/ Interrupt
    \/ PruneAgain

\* runs without DryRun, each on the repository the run before left
SpecRerun == InitRerun /\ [][NextRerun]_vars


\* ================================================================= claims
\* planPrune has returned its plan with a nil error and doPrune has not yet
\* touched it
PlanReturned == pc = "doPrune"

\* planPrune has returned, with or without an error
PlanningEnded == pc = "doPrune" \/ (pc = "failed" /\ ~hist.doPrune)

\* pack info as accounting computed it
Info(p) == hist.packInfo[p]
Needed(p) == ~(Info(p).usedBlobs = 0 /\ Info(p).duplicateBlobs = 0)
OnDiskIndexed == DOMAIN hist.disk0 \cap DOMAIN hist.packInfo
MissingIndexed == DOMAIN hist.packInfo \ DOMAIN hist.disk0

\* C1: in every plan returned without error, keepBlobs contains the whole
\* input live set, no pack of removePacks or ignorePacks holds an indexed blob
\* whose handle is in keepBlobs, and every live blob has an indexed copy in a
\* pack on disk that is outside removePacksFirst, removePacks and
\* ignorePacks (and whose handle is in keepBlobs if that pack is repacked).
C1_PlanKeepsLiveBlobs ==
    PlanReturned =>
        /\ live \subseteq plan.keepBlobs
        /\ \A e \in index :
              e.pack \in plan.removePacks \cup plan.ignorePacks
                  => e.handle \notin plan.keepBlobs
        /\ \A h \in live : \E e \in index :
              /\ e.handle = h
              /\ e.pack \in DOMAIN disk
              /\ e.pack \notin plan.removePacks \cup plan.ignorePacks \cup plan.removePacksFirst
              /\ e.pack \in plan.repackPacks => h \in plan.keepBlobs

C1_Witness ==
    /\ PlanReturned
    /\ live # {}
    /\ plan.removePacks # {}
    /\ \E e \in index : e.handle \in live /\ e.pack \notin plan.removePacks

\* C2: from the moment doPrune is entered without DryRun, in every state
\* (after each step, after a failure of the rewriter or of the index rebuild,
\* after an interruption, after the run), every live blob has an entry in a
\* persisted index file that names a pack file present on the backend.
C2_LiveBlobsStayLocatable ==
    hist.doPrune =>
        \A h \in live : \E f \in DOMAIN indexFiles : \E e \in indexFiles[f] :
            e.handle = h /\ e.pack \in DOMAIN disk

C2_Witness ==
    /\ pc = "done"
    /\ hist.doPrune
    /\ live # {}
    /\ plan.repackPacks # {}
    /\ plan.repackPacks \cap DOMAIN disk = {}

\* order of the backend mutations of doPrune
StepRank(tag) ==
    CASE tag = "removeFirst" -> 1
      [] tag = "repack"      -> 2
      [] tag = "saveIndex"   -> 3
      [] tag = "deleteIndex" -> 4
      [] OTHER               -> 5

\* C3: the backend mutations of doPrune happen in the order delete
\* removePacksFirst, repack, save the index, delete the obsolete index files,
\* delete removePacks; a pack of the plan's removePacks or repackPacks is
\* gone from the backend only after the index rebuild has returned nil, and
\* then no persisted index file mentions a pack of ignorePacks, removePacks
\* or repackPacks.
C3_StepsInOrder ==
    /\ \A i \in 1..Len(hist.log) : \A j \in 1..Len(hist.log) :
          i < j => StepRank(hist.log[i]) < StepRank(hist.log[j])
    /\ \A p \in removePacks \cup repackPacks :
          p \notin DOMAIN disk => hist.rebuilt
    /\ hist.rebuilt =>
          \A f \in DOMAIN indexFiles :
              PacksOf(indexFiles[f]) \cap (ignorePacks \cup removePacks \cup repackPacks) = {}

C3_Witness ==
    /\ pc = "done"
    /\ hist.log = <<"removeFirst", "repack", "saveIndex", "deleteIndex", "removePacks">>

\* C4: planPrune fails with IndexIncomplete exactly when some handle of the
\* input live set has no entry in the index; when every live handle is
\* indexed, usedBlobs is empty after the first loop and keepBlobs is the
\* input live set.
C4_IndexIncompleteIff ==
    pc # "pass1" =>
        /\ (err = "IndexIncomplete") <=> ~(live \subseteq HandlesOf(index))
        /\ live \subseteq HandlesOf(index) => usedBlobs = {} /\ keepBlobs = live

C4_Witness ==
    /\ pc = "failed"
    /\ err = "IndexIncomplete"
    /\ keepBlobs # {}

\* C5 as claimed: for every pack the index knows and the listing lacks, if it
\* holds no used and no duplicate blob it is in ignorePacks of the returned
\* plan and planning does not fail with PacksMissing on its account; if it
\* holds a used or duplicate blob, planPrune fails with PacksMissing.
C5_Original ==
    PlanningEnded =>
        /\ \A p \in MissingIndexed :
              IF Needed(p) THEN err = "PacksMissing"
              ELSE PlanReturned => p \in plan.ignorePacks
        /\ (err = "PacksMissing") => \E p \in MissingIndexed : Needed(p)

\* C5 amended: as C5, except that planPrune fails with SizeMismatch instead
\* of PacksMissing when a listed pack fails the size check, which is made
\* first.
C5_MissingPacks ==
    PlanningEnded =>
        /\ \A p \in MissingIndexed :
              IF Needed(p)
              THEN \/ err = "PacksMissing"
                   \/ /\ err = "SizeMismatch"
                      /\ \E q \in OnDiskIndexed :
                            /\ Info(q).usedSize + Info(q).unusedSize # hist.disk0[q]
                            /\ Needed(q)
              ELSE PlanReturned => p \in plan.ignorePacks
        /\ (err = "PacksMissing") => \E p \in MissingIndexed : Needed(p)

C5_Witness ==
    /\ pc = "failed"
    /\ err = "PacksMissing"
    /\ ignorePacks # {}

\* C6: planPrune fails with SizeMismatch exactly when some listed pack known
\* to the index has used + unused bytes different from its on-disk size and
\* holds a used or duplicate blob; a listed pack without used and duplicate
\* blobs is in removePacks of the returned plan whatever its size; every
\* listed indexed pack of a returned plan outside removePacks has used +
\* unused bytes equal to its on-disk size.
C6_SizeMismatchIff ==
    /\ pc \notin {"pass1", "pass2", "list"} =>
          ((err = "SizeMismatch") <=>
              \E q \in OnDiskIndexed :
                  /\ Info(q).usedSize + Info(q).unusedSize # hist.disk0[q]
                  /\ Needed(q))
    /\ PlanReturned =>
          \A q \in OnDiskIndexed :
              /\ ~Needed(q) => q \in plan.removePacks
              /\ q \notin plan.removePacks =>
                    Info(q).usedSize + Info(q).unusedSize = hist.disk0[q]

C6_Witness ==
    /\ PlanReturned
    /\ \E q \in plan.removePacks :
          Info(q).usedSize + Info(q).unusedSize # hist.disk0[q]
    /\ \E q \in OnDiskIndexed : Needed(q)

\* C7: when the run has ended with IndexIncomplete, PacksMissing or
\* SizeMismatch, the pack files and index files are those of the start, no
\* mutation was made, neither the candidate selection nor doPrune was
\* entered, and the plan returned is the empty plan.
C7_AbortBeforeMutation ==
    err \in {"IndexIncomplete", "PacksMissing", "SizeMismatch"} =>
        /\ disk = hist.disk0
        /\ indexFiles = hist.indexFiles0
        /\ hist.log = <<>>
        /\ ~hist.selection
        /\ ~hist.doPrune
        /\ pc = "failed"
        /\ plan = ZeroPlan

C7_Witness ==
    /\ err = "PacksMissing"
    /\ removePacksFirst # {}
    /\ ~opts.DryRun

C9_RepackSizeCapped ==
    /\ opts.MaxRepackBytes > 0 => stats.Size.Repack <= opts.MaxRepackBytes
    /\ stats.Size.Repack =
          SumOver(repackPacks, [p \in repackPacks |-> Info(p).usedSize + Info(p).unusedSize])

C9_Witness ==
    /\ PlanReturned
    /\ opts.MaxRepackBytes > 0
    /\ hist.keptByCap # {}
    /\ plan.repackPacks # {}

\* packs holding unused bytes or duplicate blobs that were kept because the
\* repack size cap was reached or because RepackCachableOnly kept them
Deferred ==
    {p \in hist.keptByCap \cup hist.keptCacheable :
        Info(p).unusedSize > 0 \/ Info(p).duplicateBlobs > 0}

\* C10 as claimed: stats.Size.RemainUnused of a returned plan is at most
\* maxUnusedSizeAfter unless a Data pack was kept because a cap was binding.
C10_Original ==
    PlanReturned =>
        \/ stats.Size.RemainUnused <= maxUnusedSizeAfter
        \/ \E p \in Deferred : Info(p).tpe = "data"

\* C10 amended: stats.Size.RemainUnused of a returned plan is at most
\* maxUnusedSizeAfter unless a pack of any type that holds unused bytes or
\* duplicate blobs was kept because the repack size cap was reached, or a
\* Data pack holding such was kept by RepackCachableOnly.
C10_RemainUnusedBounded ==
    PlanReturned =>
        \/ stats.Size.RemainUnused <= maxUnusedSizeAfter
        \/ Deferred # {}

C10_Witness ==
    /\ PlanReturned
    /\ opts.MaxUnused.kind # "unlimited"
    /\ stats.Size.RemainUnused > 0
    /\ stats.Size.RemainUnused <= maxUnusedSizeAfter
    /\ Deferred = {}
    /\ stats.Packs.Keep > 0


\* --------------------------------------------------------------- C11
\* the run before this one went through doPrune to its end
AfterSuccessfulRun == hist.run > 1 /\ hist.prev.pc = "done"

EmptyPlan ==
    /\ plan.removePacksFirst = {}
    /\ plan.repackPacks = {}
    /\ plan.removePacks = {}

\* C11 as stated: a run that follows a successful run with the same live
\* set and options plans nothing: its planning returns a plan and
\* remove_first, repack and remove are all empty
C11_Original ==
    (AfterSuccessfulRun /\ PlanningEnded) => (PlanReturned /\ EmptyPlan)

\* C11: a run that follows a successful run with the same live set and
\* options, in which max_repack_size held no candidate back, plans
\* nothing: its planning returns a plan and remove_first, repack and remove
\* are all empty
C11_SecondRunPlansNothing ==
    (AfterSuccessfulRun /\ hist.prev.keptByCap = {} /\ PlanningEnded)
        => (PlanReturned /\ EmptyPlan)

\* the run before repacked and removed packs, the cap held nothing back, and
\* the plan of this run is there
C11_Witness ==
    /\ AfterSuccessfulRun
    /\ hist.prev.keptByCap = {}
    /\ hist.prev.plan.repackPacks # {}
    /\ hist.prev.plan.removePacksFirst # {}
    /\ PlanReturned

\* --------------------------------------------------------------- C12
\* C12: in the statistics of every successful plan the emitted fields
\* satisfy blobs.total = used + unused + duplicate and
\* bytes.total = used + duplicate + unused + unreferenced
C12_AccountingClosure ==
    PlanReturned =>
        /\ stats.Blobs.Total
             = stats.Blobs.Used + stats.Blobs.Unused + stats.Blobs.Duplicate
        /\ stats.Size.Total
             = stats.Size.Used + stats.Size.Duplicate + stats.Size.Unused
               + stats.Size.Unref

\* --------------------------------------------------------------- C13
\* C13: bytes.remove + bytes.repack_rm never exceeds the unused bytes, during
\* the selection loop and after it, and in the statistics of a successful
\* plan remove_total is the sum of its parts, does not exceed total, and
\* remain and remain_unused are the differences over the integers, that is,
\* no unsigned subtraction wrapped around
C13_RemoveTotals ==
    /\ stats.Size.Remove + stats.Size.RepackRm <= stats.Size.Unused
    /\ stats.Blobs.Remove + stats.Blobs.RepackRm
         <= stats.Blobs.Unused + stats.Blobs.Duplicate
    /\ PlanReturned =>
          /\ stats.Size.RemoveTotal
               = stats.Size.Remove + stats.Size.RepackRm + stats.Size.Unref
          /\ stats.Blobs.RemoveTotal = stats.Blobs.Remove + stats.Blobs.RepackRm
          /\ stats.Size.RemoveTotal <= stats.Size.Total
          /\ stats.Blobs.RemoveTotal <= stats.Blobs.Total
          /\ stats.Size.Remain = stats.Size.Total - stats.Size.RemoveTotal
          /\ stats.Blobs.Remain = stats.Blobs.Total - stats.Blobs.RemoveTotal
          /\ stats.Size.RemainUnused
               = stats.Size.Unused - stats.Size.Remove - stats.Size.RepackRm

\* a plan that deletes an unindexed pack and drops bytes by repacking, among
\* them the bytes of duplicates
C13_Witness ==
    /\ PlanReturned
    /\ stats.Size.Unref > 0
    /\ stats.Size.RepackRm > 0
    /\ stats.Size.Duplicate > 0
    /\ repackAllPacksWithDuplicates

\* --------------------------------------------------------------- C14
\* C14: two plannings of the same index, packs on disk, live set and limits
\* return the same remove_first, repack, remove and ignore sets, whatever
\* the order of the listing and of candidates with equal priority (the
\* second planning is that of the run after a dry run; planPrune does not
\* read DryRun)
C14_PlanDeterministic ==
    (hist.run > 1 /\ PlanReturned) =>
        /\ plan.removePacksFirst = hist.prev.plan.removePacksFirst
        /\ plan.repackPacks = hist.prev.plan.repackPacks
        /\ plan.removePacks = hist.prev.plan.removePacks
        /\ plan.ignorePacks = hist.prev.plan.ignorePacks

\* --------------------------------------------------------------- C15
\* C15: with RepackCachableOnly set no pack of type data is a repack
\* candidate or in repackPacks, in any state and in the returned plan,
\* whatever its unused bytes, its duplicates and the limits; a data pack on
\* disk with no used and no duplicate blob is in plan.removePacks
C15_CachableOnlyKeepsData ==
    opts.RepackCachableOnly =>
        /\ \A p \in repackPacks \cup plan.repackPacks : Info(p).tpe # "data"
        /\ \A i \in DOMAIN repackCandidates :
               repackCandidates[i].packInfo.tpe # "data"
        /\ PlanReturned =>
              \A p \in OnDiskIndexed :
                 (Info(p).tpe = "data" /\ ~Needed(p)) => p \in plan.removePacks

\* a data pack with duplicate blobs, or with more unused bytes than the limit
\* tolerates, was kept, and the plan is there
C15_Witness ==
    /\ opts.RepackCachableOnly
    /\ opts.MaxUnused.kind # "unlimited"
    /\ PlanReturned
    /\ \E p \in hist.keptCacheable :
          /\ Info(p).tpe = "data"
          /\ Info(p).duplicateBlobs > 0 \/ Info(p).unusedSize > maxUnusedSizeAfter

\* --------------------------------------------------------------- C16
\* the packs the backend lists and the index does not know
Unindexed == DOMAIN hist.disk0 \ PacksOf(index)

\* doPrune is past its first step
PastStepOne ==
    \/ pc \in {"repack", "rebuild", "deleteObsolete", "removeOld"}
    \/ pc = "done" /\ hist.doPrune

\* C16: the returned plan.removePacksFirst is exactly the set of listed
\* packs the index does not know and stats.Size.Unref is the sum of their
\* sizes on disk; doPrune deletes them before anything else, and when
\* nothing else is planned the index files stay as they were and no index
\* is saved
C16_UnindexedRemovedFirst ==
    /\ PlanReturned =>
          /\ plan.removePacksFirst = Unindexed
          /\ stats.Size.Unref = SumOver(Unindexed, hist.disk0)
    /\ PastStepOne => plan.removePacksFirst \cap DOMAIN disk = {}
    /\ (hist.log # <<>> /\ plan.removePacksFirst # {}) => hist.log[1] = "removeFirst"
    /\ (hist.doPrune /\ repackPacks = {} /\ removePacks = {} /\ ignorePacks = {}) =>
          /\ indexFiles = hist.indexFiles0
          /\ \A i \in DOMAIN hist.log : hist.log[i] = "removeFirst"

\* a run with an indexed pack and an unindexed one, nothing but the
\* unindexed pack to delete, at its end
C16_Witness ==
    /\ pc = "done" /\ hist.doPrune
    /\ Unindexed # {}
    /\ OnDiskIndexed # {}
    /\ repackPacks = {} /\ removePacks = {} /\ ignorePacks = {}
    /\ hist.log = <<"removeFirst">>

\* --------------------------------------------------------------- C17
\* the run before this one stopped after it had rebuilt the index and
\* before it had finished
AfterStoppedRemoval == hist.run > 1 /\ hist.prev.rebuilt /\ hist.prev.pc # "done"

\* the packs of the earlier run's removePacks that it left on disk
Leftover == hist.prev.plan.removePacks \cap DOMAIN hist.disk0

\* C17: the run that follows a run stopped between the index rebuild and the
\* end of the deletion of removePacks, with the same live set, gets a plan
\* from planPrune, with every leftover pack in removePacksFirst (on disk,
\* not in the index), and has deleted them once its first step is over
C17_LeftoversSwept ==
    AfterStoppedRemoval =>
        /\ PlanningEnded => PlanReturned
        /\ PlanReturned =>
              /\ Leftover \cap PacksOf(index) = {}
              /\ Leftover \subseteq plan.removePacksFirst
        /\ PastStepOne => Leftover \cap DOMAIN disk = {}

\* a repacked pack was left over, its live blobs are in the index with their
\* new pack, and the run after is at its end
C17_Witness ==
    /\ AfterStoppedRemoval
    /\ Leftover \cap hist.prev.plan.repackPacks # {}
    /\ plan.keepBlobs # {}
    /\ hist.log = <<"removeFirst">>
    /\ pc = "done"

\* --------------------------------------------------------------- C18
\* the candidates the selection loop repacks whatever the unused target
RepackedAnyway(p) == p.duplicateBlobs > 0 \/ p.tpe # "data"

\* C18: with MaxUnused unlimited no data pack without duplicate blobs is in
\* repackPacks, in any state and in the returned plan; in the returned plan
\* every pack on disk without used and duplicate blobs is in removePacks,
\* and every candidate with duplicates or of type tree or mixed is in
\* repackPacks unless MaxRepackBytes kept it
C18_UnlimitedKeepsDataPacks ==
    opts.MaxUnused.kind = "unlimited" =>
        /\ \A p \in repackPacks \cup plan.repackPacks : RepackedAnyway(Info(p))
        /\ PlanReturned =>
              /\ \A p \in OnDiskIndexed : ~Needed(p) => p \in plan.removePacks
              /\ \A i \in DOMAIN repackCandidates :
                    RepackedAnyway(repackCandidates[i].packInfo) =>
                       \/ repackCandidates[i].ID \in plan.repackPacks
                       \/ repackCandidates[i].ID \in hist.keptByCap

\* a data pack with unused bytes and no duplicate was a candidate, was not
\* held back by MaxRepackBytes and is not repacked
C18_Witness ==
    /\ opts.MaxUnused.kind = "unlimited"
    /\ PlanReturned
    /\ \E i \in DOMAIN repackCandidates :
          /\ ~RepackedAnyway(repackCandidates[i].packInfo)
          /\ repackCandidates[i].packInfo.unusedSize > 0
          /\ repackCandidates[i].ID \notin hist.keptByCap
          /\ repackCandidates[i].ID \notin plan.repackPacks

\* --------------------------------------------------------------- C19
PackBytes(p) == p.usedSize + p.unusedSize

\* stats.Size.Repack when the loop comes to the i-th candidate
RepackBefore(i) ==
    SumOver({j \in 1..(i - 1) : repackCandidates[j].ID \in repackPacks},
            [j \in 1..(i - 1) |-> PackBytes(repackCandidates[j].packInfo)])

CandidateIDs == {repackCandidates[i].ID : i \in DOMAIN repackCandidates}

\* C19: a candidate with duplicate blobs or of type tree or mixed that the
\* loop has visited is in repackPacks exactly when no cap is set or its
\* bytes added to the bytes selected before it do not exceed MaxRepackBytes,
\* whatever MaxUnused; once the listing is through, every mixed pack on
\* disk with a used or duplicate blob is a candidate; without cap and
\* RepackCachableOnly, two packs on disk holding the same live blob are both
\* in the returned repackPacks
C19_DuplicatesAndMixedRepacked ==
    /\ pc \in {"select", "doPrune"} =>
          \A i \in 1..hist.visited :
             RepackedAnyway(repackCandidates[i].packInfo) =>
                (repackCandidates[i].ID \in repackPacks
                   <=> \/ opts.MaxRepackBytes = 0
                       \/ RepackBefore(i) + PackBytes(repackCandidates[i].packInfo)
                            <= opts.MaxRepackBytes)
    /\ pc \in {"missing", "sort", "select", "doPrune"} =>
          \A p \in OnDiskIndexed :
             (Info(p).tpe = "invalid" /\ Needed(p)) => p \in CandidateIDs
    /\ (PlanReturned /\ opts.MaxRepackBytes = 0 /\ ~opts.RepackCachableOnly) =>
          \A e1, e2 \in index :
             (e1.handle = e2.handle /\ e1.pack # e2.pack /\ e1.handle \in live)
                => {e1.pack, e2.pack} \subseteq plan.repackPacks

\* under a cap and with the unused target met from the start, one candidate
\* with duplicates is repacked and the next is kept by the cap
C19_Witness ==
    /\ PlanReturned
    /\ opts.MaxUnused.kind = "unlimited"
    /\ opts.MaxRepackBytes > 0
    /\ \E i, j \in DOMAIN repackCandidates :
          /\ i < j
          /\ RepackedAnyway(repackCandidates[i].packInfo)
          /\ RepackedAnyway(repackCandidates[j].packInfo)
          /\ repackCandidates[i].ID \in plan.repackPacks
          /\ repackCandidates[j].ID \in hist.keptByCap

\* --------------------------------------------------------------- C20
\* the indexed packs the plan leaves where they are
KeptPacks ==
    DOMAIN hist.packInfo \ (plan.removePacks \cup plan.repackPacks \cup plan.ignorePacks)

UnusedBlobsOf(S) == SumOver(S, [p \in S |-> Info(p).unusedBlobs])
UnusedSizeOf(S) == SumOver(S, [p \in S |-> Info(p).unusedSize])

\* C20: in a returned plan repackAllPacksWithDuplicates is true exactly when
\* every pack on disk with a duplicate blob is in repackPacks; RepackRm is
\* what the repacked packs hold unused, plus the duplicates when the flag
\* is true; with the flag true Blobs.Remain is one per live handle plus the
\* unused blobs of the packs left alone, and at the end of the run every live
\* handle has exactly one index entry, in a pack on disk
C20_RepackAllFlag ==
    /\ PlanReturned =>
          /\ repackAllPacksWithDuplicates
                <=> \A p \in OnDiskIndexed :
                       Info(p).duplicateBlobs > 0 => p \in plan.repackPacks
          /\ stats.Blobs.RepackRm
                = UnusedBlobsOf(plan.repackPacks)
                  + (IF repackAllPacksWithDuplicates THEN stats.Blobs.Duplicate ELSE 0)
          /\ stats.Size.RepackRm
                = UnusedSizeOf(plan.repackPacks)
                  + (IF repackAllPacksWithDuplicates THEN stats.Size.Duplicate ELSE 0)
          /\ repackAllPacksWithDuplicates =>
                stats.Blobs.Remain = Cardinality(plan.keepBlobs) + UnusedBlobsOf(KeptPacks)
    /\ (pc = "done" /\ hist.doPrune /\ repackAllPacksWithDuplicates) =>
          \A h \in plan.keepBlobs :
             /\ Cardinality({e \in LoadIndex(indexFiles) : e.handle = h}) = 1
             /\ \A e \in LoadIndex(indexFiles) : e.handle = h => e.pack \in DOMAIN disk

\* a run that found duplicates, repacked every pack holding one, and ended
C20_Witness ==
    /\ pc = "done" /\ hist.doPrune
    /\ repackAllPacksWithDuplicates
    /\ stats.Blobs.Duplicate > 0
    /\ Cardinality(plan.repackPacks) > 1

\* --------------------------------------------------------------- C21
\* the second loop is through and doPrune has not yet changed the index
Aggregated == pc \in {"list", "missing", "sort", "select", "doPrune"}

\* the indexed copies of handle h
Copies(h) == {e \in index : e.handle = h}

\* the index entries of pack p: copies of live handles with further copies,
\* the only copies of live handles, and blobs no snapshot uses
DuplicateIn(p) == {e \in EntriesIn(index, p) :
                     e.handle \in live /\ Cardinality(Copies(e.handle)) >= 2}
SingleIn(p) == {e \in EntriesIn(index, p) :
                  e.handle \in live /\ Cardinality(Copies(e.handle)) = 1}
DeadIn(p) == {e \in EntriesIn(index, p) : e.handle \notin live}

LengthOf(S) == SumOver(S, [e \in S |-> Length(e.handle)])

\* C21: after the second loop, whatever the order of the two enumerations,
\* every copy of a live handle with two or more copies is counted under
\* duplicateBlobs and usedSize of its pack and nowhere else, so the pack info
\* is a function of index and live set alone; the used and duplicate blobs
\* summed over the packs are Blobs.Used + Blobs.Duplicate of the first loop
C21_EveryCopyCountedDuplicate ==
    Aggregated =>
        /\ \A p \in DOMAIN hist.packInfo :
              /\ Info(p).duplicateBlobs = Cardinality(DuplicateIn(p))
              /\ Info(p).usedBlobs = Cardinality(SingleIn(p))
              /\ Info(p).unusedBlobs = Cardinality(DeadIn(p))
              /\ Info(p).usedSize
                   = HeaderBytes + LengthOf(DuplicateIn(p) \cup SingleIn(p))
              /\ Info(p).unusedSize = LengthOf(DeadIn(p))
              /\ Info(p).tpe
                   = (IF \E e1, e2 \in EntriesIn(index, p) :
                            BlobType(e1.handle) # BlobType(e2.handle)
                      THEN "invalid"
                      ELSE BlobType((CHOOSE e \in EntriesIn(index, p) : TRUE).handle))
        /\ SumOver(DOMAIN hist.packInfo,
                   [p \in DOMAIN hist.packInfo |->
                      Info(p).usedBlobs + Info(p).duplicateBlobs])
             = stats.Blobs.Used + stats.Blobs.Duplicate

\* a live handle with two copies, each copy counted as a duplicate of its
\* pack, and one duplicate counted by the first loop
C21_Witness ==
    /\ Aggregated
    /\ stats.Blobs.Used = 1
    /\ stats.Blobs.Duplicate = 1
    /\ \E p, q \in DOMAIN hist.packInfo :
          /\ p # q
          /\ Info(p).duplicateBlobs = 1 /\ Info(p).usedBlobs = 0
          /\ Info(q).duplicateBlobs = 1 /\ Info(q).usedBlobs = 0

\* --------------------------------------------------------------- C22
\* C22: in a returned plan removePacksFirst, repackPacks, removePacks and
\* ignorePacks are pairwise disjoint; removePacks and repackPacks hold only
\* indexed packs on disk, and Packs.Keep is the number of the other indexed
\* packs on disk, so every such pack has one decision;
\* keep + repack + remove = used + partly used + unused, and
\* total = keep + repack + remove + unreferenced
C22_OneDecisionPerPack ==
    PlanReturned =>
        /\ plan.removePacksFirst \cap plan.repackPacks = {}
        /\ plan.removePacksFirst \cap plan.removePacks = {}
        /\ plan.removePacksFirst \cap plan.ignorePacks = {}
        /\ plan.repackPacks \cap plan.removePacks = {}
        /\ plan.repackPacks \cap plan.ignorePacks = {}
        /\ plan.removePacks \cap plan.ignorePacks = {}
        /\ plan.repackPacks \cup plan.removePacks \subseteq OnDiskIndexed
        /\ stats.Packs.Keep
             = Cardinality(OnDiskIndexed \ (plan.repackPacks \cup plan.removePacks))
        /\ stats.Packs.Repack = Cardinality(plan.repackPacks)
        /\ stats.Packs.Remove = Cardinality(plan.removePacks)
        /\ stats.Packs.Keep + stats.Packs.Repack + stats.Packs.Remove
             = stats.Packs.Used + stats.Packs.PartlyUsed + stats.Packs.Unused
        /\ stats.Packs.Total
             = stats.Packs.Keep + stats.Packs.Repack + stats.Packs.Remove
               + stats.Packs.Unref

\* a plan with an unindexed pack, an ignored missing pack and an indexed pack
\* on disk that got its decision
C22_Witness ==
    /\ PlanReturned
    /\ plan.removePacksFirst # {}
    /\ plan.ignorePacks # {}
    /\ OnDiskIndexed # {}
    /\ stats.Packs.Total = 2

====
